---------------------------- MODULE Spec2Model ----------------------------
(***************************************************************************)
(* A model of the Jobber OAuth relay (jobber_auth.py, jobber_disconnect.py, *)
(* main.py): the state codec (encode_state / decode_state), the            *)
(* authorization initiator (jobber_start), the callback handler            *)
(* (jobber_callback) and the sink forwarder                                *)
(* (store_jobber_tokens_for_client).                                       *)
(*                                                                         *)
(* Text is modelled as sequences of code points, byte strings as sequences *)
(* of 0..255.  Python values are tagged records [k |-> kind, v |-> value]. *)
(***************************************************************************)
EXTENDS Integers, Sequences, FiniteSets, TLC

(***************************************************************************)
(* Python values                                                           *)
(***************************************************************************)
PyNone == [k |-> "none", v |-> 0]

PyStr(s) == [k |-> "str", v |-> s]

PyInt(n) == [k |-> "int", v |-> n]

PyBool(b) == [k |-> "bool", v |-> b]

PyFloat(lexeme) == [k |-> "float", v |-> lexeme]

PyList(items) == [k |-> "list", v |-> items]

PyDict(f) == [k |-> "dict", v |-> f]

EmptyDict == PyDict(<<>>)

\* dict.get(key): the value under key, None when the key is absent.
DictGet(d, key) == IF key \in DOMAIN d.v THEN d.v[key] ELSE PyNone

\* d[key] = val on a copy (a later duplicate key replaces an earlier one).
DictPut(d, key, val) ==
    PyDict([x \in (DOMAIN d.v) \cup {key} |-> IF x = key THEN val ELSE d.v[x]])

\* a float, kept as its JSON lexeme, is not 0.0: NaN, Infinity, or a mantissa
\* with a digit other than 0
FloatNonZero(lex) ==
    \/ lex[1] \in {78, 73}
    \/ lex[1] = 45 /\ lex[2] = 73
    \/ \E i \in 1..Len(lex) : lex[i] \in 49..57 /\ \A j \in 1..i : lex[j] \notin {101, 69}

\* Python truthiness, as used by `if not x`.
Truthy(x) ==
    CASE x.k = "none" -> FALSE
      [] x.k = "bool" -> x.v
      [] x.k = "int" -> x.v # 0
      [] x.k = "float" -> FloatNonZero(x.v)
      [] x.k = "str" -> Len(x.v) > 0
      [] x.k = "list" -> Len(x.v) > 0
      [] x.k = "dict" -> DOMAIN x.v # {}
      [] OTHER -> TRUE

(***************************************************************************)
(* Characters                                                              *)
(***************************************************************************)
IsDigit(c) == c >= 48 /\ c <= 57

IsHexDigit(c) == IsDigit(c) \/ (c >= 97 /\ c <= 102) \/ (c >= 65 /\ c <= 70)

HexVal(c) == IF IsDigit(c) THEN c - 48 ELSE IF c >= 97 THEN c - 87 ELSE c - 55

HexChar(n) == IF n < 10 THEN 48 + n ELSE 87 + n

\* '\\u{0:04x}'.format(n)
Hex4(n) ==
    << 92, 117, HexChar((n \div 4096) % 16), HexChar((n \div 256) % 16),
       HexChar((n \div 16) % 16), HexChar(n % 16) >>

\* JSON whitespace: space, \t, \n, \r
IsWs(c) == c \in {32, 9, 10, 13}

RECURSIVE SkipWs(_, _)
SkipWs(s, i) == IF i <= Len(s) /\ IsWs(s[i]) THEN SkipWs(s, i + 1) ELSE i

\* s[i..] starts with the text lit
StartsWith(s, i, lit) ==
    /\ i + Len(lit) - 1 <= Len(s)
    /\ \A j \in 1..Len(lit) : s[i + j - 1] = lit[j]

\* str.lower() on ASCII letters
LowerChar(c) == IF c >= 65 /\ c <= 90 THEN c + 32 ELSE c

Lower(s) == [i \in 1..Len(s) |-> LowerChar(s[i])]

\* `needle in hay`
Contains(hay, needle) == \E i \in 1..(Len(hay) - Len(needle) + 1) : StartsWith(hay, i, needle)

\* Python's str.strip() whitespace among the characters used here
IsSpace(c) == c \in {32, 9, 10, 11, 12, 13}

RECURSIVE LStrip(_)
LStrip(s) == IF Len(s) > 0 /\ IsSpace(s[1]) THEN LStrip(Tail(s)) ELSE s

RECURSIVE RStrip(_)
RStrip(s) == IF Len(s) > 0 /\ IsSpace(s[Len(s)]) THEN RStrip(SubSeq(s, 1, Len(s) - 1)) ELSE s

Strip(s) == RStrip(LStrip(s))

\* lexicographic order of strings by code point (Python's str <)
RECURSIVE StrLess(_, _)
StrLess(a, b) ==
    IF Len(b) = 0 THEN FALSE
    ELSE IF Len(a) = 0 THEN TRUE
    ELSE IF a[1] # b[1] THEN a[1] < b[1]
    ELSE StrLess(Tail(a), Tail(b))

\* sorted(keys)
RECURSIVE SortedKeys(_)
SortedKeys(keys) ==
    IF keys = {} THEN <<>>
    ELSE LET m == CHOOSE x \in keys : \A y \in keys \ {x} : StrLess(x, y)
         IN  <<m>> \o SortedKeys(keys \ {m})


(***************************************************************************)
(* Loops over a text.  Each `for`/`while` loop of the library code is a    *)
(* step operator on the loop state st (a record with the position i and a  *)
(* done flag); LoopStep selects the step of the loop named by kind, and    *)
(* Loop runs it until done.  The iterations run in blocks of 32            *)
(* (LoopBlock) so that the evaluation depth stays small on long texts.     *)
(***************************************************************************)
RECURSIVE LoopStep(_, _, _)
RECURSIVE LoopBlock(_, _, _, _)
LoopBlock(kind, s, st, k) ==
    IF st.done \/ k = 0 THEN st ELSE LoopBlock(kind, s, LoopStep(kind, s, st), k - 1)

RECURSIVE Loop(_, _, _)
Loop(kind, s, st) ==
    IF st.done THEN st ELSE Loop(kind, s, LoopBlock(kind, s, st, 32))

(***************************************************************************)
(* UTF-8: str.encode("utf-8") and bytes.decode("utf-8")                    *)
(***************************************************************************)
CodecFail == [ok |-> FALSE, v |-> <<>>]

CodecOk(x) == [ok |-> TRUE, v |-> x]

IsSurrogate(c) == c >= 55296 /\ c <= 57343

Utf8Char(c) ==
    IF c < 128 THEN <<c>>
    ELSE IF c < 2048 THEN <<192 + (c \div 64), 128 + (c % 64)>>
    ELSE IF c < 65536 THEN <<224 + (c \div 4096), 128 + ((c \div 64) % 64), 128 + (c % 64)>>
    ELSE <<240 + (c \div 262144), 128 + ((c \div 4096) % 64),
           128 + ((c \div 64) % 64), 128 + (c % 64)>>

Utf8EncodeStep(s, st) ==
    IF st.i > Len(s) THEN [st EXCEPT !.done = TRUE]
    ELSE IF IsSurrogate(s[st.i]) THEN [st EXCEPT !.done = TRUE, !.ok = FALSE]
    ELSE [st EXCEPT !.i = @ + 1, !.out = @ \o Utf8Char(s[st.i])]

\* s.encode("utf-8"): fails (UnicodeEncodeError) on a lone surrogate
Utf8Encode(s) ==
    LET st == Loop("utf8-encode", s, [i |-> 1, done |-> FALSE, ok |-> TRUE, out |-> <<>>])
    IN  IF st.ok THEN CodecOk(st.out) ELSE CodecFail

IsCont(b, i) == i <= Len(b) /\ b[i] >= 128 /\ b[i] <= 191

Utf8DecodeStep(b, st) ==
    LET i == st.i
        bad == [st EXCEPT !.done = TRUE, !.ok = FALSE]
    IN  IF i > Len(b) THEN [st EXCEPT !.done = TRUE]
        ELSE LET c == b[i] IN
             IF c < 128 THEN [st EXCEPT !.i = i + 1, !.out = Append(@, c)]
             ELSE IF c >= 194 /\ c <= 223 /\ IsCont(b, i + 1)
                  THEN [st EXCEPT !.i = i + 2,
                                  !.out = Append(@, (c - 192) * 64 + (b[i + 1] - 128))]
             ELSE IF c >= 224 /\ c <= 239 /\ IsCont(b, i + 1) /\ IsCont(b, i + 2)
                  THEN LET cp == (c - 224) * 4096 + (b[i + 1] - 128) * 64 + (b[i + 2] - 128)
                       IN  IF cp < 2048 \/ IsSurrogate(cp) THEN bad
                           ELSE [st EXCEPT !.i = i + 3, !.out = Append(@, cp)]
             ELSE IF c >= 240 /\ c <= 244 /\ IsCont(b, i + 1) /\ IsCont(b, i + 2) /\ IsCont(b, i + 3)
                  THEN LET cp == (c - 240) * 262144 + (b[i + 1] - 128) * 4096
                                 + (b[i + 2] - 128) * 64 + (b[i + 3] - 128)
                       IN  IF cp < 65536 \/ cp > 1114111 THEN bad
                           ELSE [st EXCEPT !.i = i + 4, !.out = Append(@, cp)]
             ELSE bad

\* b.decode("utf-8"): fails (UnicodeDecodeError) on an ill-formed sequence
Utf8Decode(b) ==
    LET st == Loop("utf8-decode", b, [i |-> 1, done |-> FALSE, ok |-> TRUE, out |-> <<>>])
    IN  IF st.ok THEN CodecOk(st.out) ELSE CodecFail

(***************************************************************************)
(* base64.urlsafe_b64encode / base64.urlsafe_b64decode                     *)
(***************************************************************************)
\* the URL-safe alphabet: A-Z a-z 0-9 - _
B64Char(n) ==
    IF n < 26 THEN 65 + n
    ELSE IF n < 52 THEN 97 + (n - 26)
    ELSE IF n < 62 THEN 48 + (n - 52)
    ELSE IF n = 62 THEN 45
    ELSE 95

\* The decoder translates - and _ to + and / and then reads the standard
\* alphabet, so both spellings of 62 and 63 are accepted; 64 = not in alphabet.
B64Val(c) ==
    IF c >= 65 /\ c <= 90 THEN c - 65
    ELSE IF c >= 97 /\ c <= 122 THEN c - 97 + 26
    ELSE IF c >= 48 /\ c <= 57 THEN c - 48 + 52
    ELSE IF c = 43 \/ c = 45 THEN 62
    ELSE IF c = 47 \/ c = 95 THEN 63
    ELSE 64

\* one group of up to three bytes becomes four characters, padded with =
B64EncodeStep(b, st) ==
    LET i == st.i
        left == Len(b) - i + 1
    IN  IF left <= 0 THEN [st EXCEPT !.done = TRUE]
        ELSE IF left = 1 THEN
            [st EXCEPT !.i = i + 1,
                !.out = @ \o << B64Char(b[i] \div 4), B64Char((b[i] % 4) * 16), 61, 61 >>]
        ELSE IF left = 2 THEN
            [st EXCEPT !.i = i + 2,
                !.out = @ \o << B64Char(b[i] \div 4),
                                B64Char((b[i] % 4) * 16 + (b[i + 1] \div 16)),
                                B64Char((b[i + 1] % 16) * 4), 61 >>]
        ELSE
            [st EXCEPT !.i = i + 3,
                !.out = @ \o << B64Char(b[i] \div 4),
                                B64Char((b[i] % 4) * 16 + (b[i + 1] \div 16)),
                                B64Char((b[i + 1] % 16) * 4 + (b[i + 2] \div 64)),
                                B64Char(b[i + 2] % 64) >>]

\* base64.urlsafe_b64encode(b), as text
urlsafe_b64encode(b) == Loop("b64encode", b, [i |-> 1, done |-> FALSE, out |-> <<>>]).out

\* One iteration of binascii.a2b_base64 in its default, non-strict mode:
\* characters outside the alphabet are skipped, a pad that completes a quad
\* ends the input, and at the end a dangling quad is an error (binascii.Error).
B64DecodeStep(s, st) ==
    IF st.i > Len(s) THEN [st EXCEPT !.done = TRUE, !.ok = (st.quad = 0)]
    ELSE LET c == s[st.i]
             n == B64Val(c)
             next == [st EXCEPT !.i = @ + 1]
         IN  IF c = 61 THEN
                 IF st.quad >= 2 /\ st.quad + st.pads + 1 >= 4 THEN [st EXCEPT !.done = TRUE]
                 ELSE IF st.quad >= 2 THEN [next EXCEPT !.pads = @ + 1]
                 ELSE next
             ELSE IF n = 64 THEN next
             ELSE IF st.quad = 0 THEN [next EXCEPT !.quad = 1, !.leftchar = n, !.pads = 0]
             ELSE IF st.quad = 1 THEN
                 [next EXCEPT !.quad = 2, !.leftchar = n % 16, !.pads = 0,
                              !.out = Append(@, st.leftchar * 4 + (n \div 16))]
             ELSE IF st.quad = 2 THEN
                 [next EXCEPT !.quad = 3, !.leftchar = n % 4, !.pads = 0,
                              !.out = Append(@, st.leftchar * 16 + (n \div 4))]
             ELSE [next EXCEPT !.quad = 0, !.leftchar = 0, !.pads = 0,
                               !.out = Append(@, st.leftchar * 64 + n)]

\* base64.urlsafe_b64decode(b)
urlsafe_b64decode(b) ==
    LET st == Loop("b64decode", b,
                   [i |-> 1, done |-> FALSE, ok |-> TRUE, quad |-> 0, leftchar |-> 0,
                    pads |-> 0, out |-> <<>>])
    IN  IF st.ok THEN CodecOk(st.out) ELSE CodecFail

(***************************************************************************)
(* json.dumps(payload, separators=(",", ":"), sort_keys=True)              *)
(***************************************************************************)
\* a json.dumps that escapes nothing
JsonEscapeNone(c) == <<c>>

\* one character of a string, as ensure_ascii escapes it
JsonEscapeChar(c) ==
    IF c = 34 THEN <<92, 34>>
    ELSE IF c = 92 THEN <<92, 92>>
    ELSE IF c = 10 THEN <<92, 110>>
    ELSE IF c = 13 THEN <<92, 114>>
    ELSE IF c = 9 THEN <<92, 116>>
    ELSE IF c = 8 THEN <<92, 98>>
    ELSE IF c = 12 THEN <<92, 102>>
    ELSE IF c >= 32 /\ c <= 126 THEN <<c>>
    ELSE IF c < 65536 THEN Hex4(c)
    ELSE Hex4(55296 + ((c - 65536) \div 1024)) \o Hex4(56320 + ((c - 65536) % 1024))

JsonEscapeStep(s, st) ==
    IF st.i > Len(s) THEN [st EXCEPT !.done = TRUE]
    ELSE [st EXCEPT !.i = @ + 1, !.out = @ \o JsonEscapeChar(s[st.i])]

JsonEscape(s) == Loop("json-escape", s, [i |-> 1, done |-> FALSE, out |-> <<>>]).out

DumpStr(s) == <<34>> \o JsonEscape(s) \o <<34>>

RECURSIVE DumpNat(_)
DumpNat(n) == IF n < 10 THEN <<48 + n>> ELSE Append(DumpNat(n \div 10), 48 + (n % 10))

DumpInt(n) == IF n < 0 THEN <<45>> \o DumpNat(-n) ELSE DumpNat(n)

RECURSIVE JsonDumps(_)
RECURSIVE DumpMembers(_, _, _)
RECURSIVE DumpItems(_, _)
JsonDumps(x) ==
    CASE x.k = "str" -> DumpStr(x.v)
      [] x.k = "int" -> DumpInt(x.v)
      [] x.k = "none" -> <<110, 117, 108, 108>>
      [] x.k = "bool" -> (IF x.v THEN <<116, 114, 117, 101>> ELSE <<102, 97, 108, 115, 101>>)
      [] x.k = "float" -> x.v
      [] x.k = "list" -> <<91>> \o DumpItems(x.v, 1) \o <<93>>
      [] x.k = "dict" -> <<123>> \o DumpMembers(x, SortedKeys(DOMAIN x.v), 1) \o <<125>>

DumpMembers(d, keys, i) ==
    IF i > Len(keys) THEN <<>>
    ELSE (IF i > 1 THEN <<44>> ELSE <<>>)
         \o DumpStr(keys[i]) \o <<58>> \o JsonDumps(d.v[keys[i]])
         \o DumpMembers(d, keys, i + 1)

DumpItems(items, i) ==
    IF i > Len(items) THEN <<>>
    ELSE (IF i > 1 THEN <<44>> ELSE <<>>) \o JsonDumps(items[i]) \o DumpItems(items, i + 1)

(***************************************************************************)
(* json.loads(text)                                                        *)
(***************************************************************************)
ParseFail == [ok |-> FALSE, v |-> PyNone, n |-> 0]

ParseOk(val, next) == [ok |-> TRUE, v |-> val, n |-> next]

HexAt(s, i) ==
    HexVal(s[i]) * 4096 + HexVal(s[i + 1]) * 256 + HexVal(s[i + 2]) * 16 + HexVal(s[i + 3])

\* four hex digits at s[i..i+3]
HasHex4(s, i) == i + 3 <= Len(s) /\ \A j \in 0..3 : IsHexDigit(s[i + j])

\* one iteration of the string scanner (strict: no raw control characters)
ScanStringStep(s, st) ==
    LET i == st.i
        bad == [st EXCEPT !.done = TRUE, !.ok = FALSE]
    IN  IF i > Len(s) THEN bad
        ELSE LET c == s[i] IN
             IF c = 34 THEN [st EXCEPT !.done = TRUE, !.i = i + 1]
             ELSE IF c < 32 THEN bad
             ELSE IF c # 92 THEN [st EXCEPT !.i = i + 1, !.out = Append(@, c)]
             ELSE IF i + 1 > Len(s) THEN bad
             ELSE LET e == s[i + 1] IN
                  IF e \in {34, 92, 47} THEN [st EXCEPT !.i = i + 2, !.out = Append(@, e)]
                  ELSE IF e = 98 THEN [st EXCEPT !.i = i + 2, !.out = Append(@, 8)]
                  ELSE IF e = 102 THEN [st EXCEPT !.i = i + 2, !.out = Append(@, 12)]
                  ELSE IF e = 110 THEN [st EXCEPT !.i = i + 2, !.out = Append(@, 10)]
                  ELSE IF e = 114 THEN [st EXCEPT !.i = i + 2, !.out = Append(@, 13)]
                  ELSE IF e = 116 THEN [st EXCEPT !.i = i + 2, !.out = Append(@, 9)]
                  ELSE IF e = 117 /\ HasHex4(s, i + 2) THEN
                      LET u == HexAt(s, i + 2) IN
                      IF /\ u >= 55296 /\ u <= 56319
                         /\ StartsWith(s, i + 6, <<92, 117>>)
                         /\ HasHex4(s, i + 8)
                         /\ HexAt(s, i + 8) >= 56320 /\ HexAt(s, i + 8) <= 57343
                      THEN [st EXCEPT !.i = i + 12,
                               !.out = Append(@, 65536 + (u - 55296) * 1024
                                                        + (HexAt(s, i + 8) - 56320))]
                      ELSE [st EXCEPT !.i = i + 6, !.out = Append(@, u)]
                  ELSE bad

\* the body of a string literal, from just after its opening quote at s[i-1]
ScanString(s, i) ==
    LET st == Loop("json-string", s, [i |-> i, done |-> FALSE, ok |-> TRUE, out |-> <<>>])
    IN  IF st.ok THEN ParseOk(PyStr(st.out), st.i) ELSE ParseFail

\* the first index at or after i that holds no digit
RECURSIVE DigitsEnd(_, _)
DigitsEnd(s, i) == IF i <= Len(s) /\ IsDigit(s[i]) THEN DigitsEnd(s, i + 1) ELSE i

RECURSIVE DigitsVal(_, _, _, _)
DigitsVal(s, i, j, acc) == IF i >= j THEN acc ELSE DigitsVal(s, i + 1, j, acc * 10 + (s[i] - 48))

\* -?(0|[1-9]\d*)(\.\d+)?([eE][-+]?\d+)?  at s[i..]
ParseNumber(s, i) ==
    LET neg == s[i] = 45
        d0 == IF neg THEN i + 1 ELSE i
    IN  IF d0 > Len(s) \/ ~IsDigit(s[d0]) THEN ParseFail
        ELSE LET intEnd == IF s[d0] = 48 THEN d0 + 1 ELSE DigitsEnd(s, d0)
                 fracEnd == IF intEnd + 1 <= Len(s) /\ s[intEnd] = 46 /\ IsDigit(s[intEnd + 1])
                            THEN DigitsEnd(s, intEnd + 1) ELSE intEnd
                 e1 == IF fracEnd + 1 <= Len(s) /\ s[fracEnd] \in {101, 69}
                       THEN (IF s[fracEnd + 1] \in {43, 45} THEN fracEnd + 2 ELSE fracEnd + 1)
                       ELSE 0
                 expEnd == IF e1 > 0 /\ e1 <= Len(s) /\ IsDigit(s[e1])
                           THEN DigitsEnd(s, e1) ELSE fracEnd
             IN  IF expEnd = intEnd
                 THEN ParseOk(PyInt((IF neg THEN -1 ELSE 1) * DigitsVal(s, d0, intEnd, 0)), intEnd)
                 ELSE ParseOk(PyFloat(SubSeq(s, i, expEnd - 1)), expEnd)

RECURSIVE ParseValue(_, _)
RECURSIVE ObjMembers(_, _, _)
RECURSIVE ArrItems(_, _, _)
\* JSONObject after `{` and white space, at s[j]
ObjOpen(s, j) ==
    IF j > Len(s) THEN ParseFail
    ELSE IF s[j] = 125 THEN ParseOk(EmptyDict, j + 1)
    ELSE IF s[j] = 34 THEN ObjMembers(s, j, EmptyDict)
    ELSE ParseFail

\* JSONArray after `[` and white space, at s[j]
ArrOpen(s, j) ==
    IF j > Len(s) THEN ParseFail
    ELSE IF s[j] = 93 THEN ParseOk(PyList(<<>>), j + 1)
    ELSE ArrItems(s, j, <<>>)

\* scan_once on the character c = s[i]: a string, an object, an array, null,
\* true, false, NaN, Infinity, -Infinity or a number
ScanOnce(s, i, c) ==
    IF c = 34 THEN ScanString(s, i + 1)
    ELSE IF c = 123 THEN ObjOpen(s, SkipWs(s, i + 1))
    ELSE IF c = 91 THEN ArrOpen(s, SkipWs(s, i + 1))
    ELSE IF StartsWith(s, i, <<110, 117, 108, 108>>) THEN ParseOk(PyNone, i + 4)
    ELSE IF StartsWith(s, i, <<116, 114, 117, 101>>) THEN ParseOk(PyBool(TRUE), i + 4)
    ELSE IF StartsWith(s, i, <<102, 97, 108, 115, 101>>) THEN ParseOk(PyBool(FALSE), i + 5)
    ELSE IF StartsWith(s, i, <<78, 97, 78>>) THEN ParseOk(PyFloat(SubSeq(s, i, i + 2)), i + 3)
    ELSE IF StartsWith(s, i, <<73, 110, 102, 105, 110, 105, 116, 121>>)
         THEN ParseOk(PyFloat(SubSeq(s, i, i + 7)), i + 8)
    ELSE IF StartsWith(s, i, <<45, 73, 110, 102, 105, 110, 105, 116, 121>>)
         THEN ParseOk(PyFloat(SubSeq(s, i, i + 8)), i + 9)
    ELSE IF c = 45 \/ IsDigit(c) THEN ParseNumber(s, i)
    ELSE ParseFail

\* scan_once(s, i)
ParseValue(s, i) == IF i > Len(s) THEN ParseFail ELSE ScanOnce(s, i, s[i])

\* after a member: `}` ends the object, `,` and a quote start the next member
ObjNextKey(s, k4, d) ==
    IF k4 > Len(s) \/ s[k4] # 34 THEN ParseFail ELSE ObjMembers(s, k4, d)

ObjAfterValue(s, k3, d) ==
    IF k3 > Len(s) THEN ParseFail
    ELSE IF s[k3] = 125 THEN ParseOk(d, k3 + 1)
    ELSE IF s[k3] # 44 THEN ParseFail
    ELSE ObjNextKey(s, SkipWs(s, k3 + 1), d)

ObjValue(s, d, key, val) ==
    IF ~val.ok THEN ParseFail
    ELSE ObjAfterValue(s, SkipWs(s, val.n), DictPut(d, key.v.v, val.v))

ObjColon(s, d, key, k1) ==
    IF k1 > Len(s) \/ s[k1] # 58 THEN ParseFail
    ELSE ObjValue(s, d, key, ParseValue(s, SkipWs(s, k1 + 1)))

ObjKey(s, d, key) == IF ~key.ok THEN ParseFail ELSE ObjColon(s, d, key, SkipWs(s, key.n))

\* the members of an object from the opening quote of a key at s[j]
ObjMembers(s, j, d) == ObjKey(s, d, ScanString(s, j + 1))

\* after an item: `]` ends the array, `,` starts the next item
ArrAfterValue(s, k3, items) ==
    IF k3 > Len(s) THEN ParseFail
    ELSE IF s[k3] = 93 THEN ParseOk(PyList(items), k3 + 1)
    ELSE IF s[k3] # 44 THEN ParseFail
    ELSE ArrItems(s, SkipWs(s, k3 + 1), items)

ArrValue(s, items, val) ==
    IF ~val.ok THEN ParseFail
    ELSE ArrAfterValue(s, SkipWs(s, val.n), Append(items, val.v))

\* the items of an array from the first character of an item at s[j]
ArrItems(s, j, items) == ArrValue(s, items, ParseValue(s, j))

\* json.loads(s): one value, surrounded by optional whitespace, and nothing else
\* json.loads raises on "Extra data" after the value r
WholeText(s, r) == IF r.ok /\ SkipWs(s, r.n) = Len(s) + 1 THEN r ELSE ParseFail

JsonLoads(s) ==
    IF Len(s) > 0 /\ s[1] = 65279 THEN ParseFail
    ELSE WholeText(s, ParseValue(s, SkipWs(s, 1)))

(***************************************************************************)
(* urllib.parse.urlencode                                                  *)
(***************************************************************************)
\* One character of quote_plus: a letter, a digit or one of _ . - ~ stays, a
\* space becomes +, every other character becomes %XX for each of its UTF-8
\* bytes (upper-case hexadecimal).
QuoteStep(s, st) ==
    IF st.i > Len(s) THEN [st EXCEPT !.done = TRUE]
    ELSE LET c == s[st.i]
             hex == [n \in 0..15 |-> IF n < 10 THEN 48 + n ELSE 55 + n]
             bytes == Utf8Char(c)
             pct == [j \in 1..(3 * Len(bytes)) |->
                        LET b == bytes[(j + 2) \div 3]
                        IN  IF j % 3 = 1 THEN 37
                            ELSE IF j % 3 = 2 THEN hex[b \div 16] ELSE hex[b % 16]]
         IN  IF IsDigit(c) \/ (c >= 65 /\ c <= 90) \/ (c >= 97 /\ c <= 122)
                \/ c \in {95, 46, 45, 126}
             THEN [st EXCEPT !.i = @ + 1, !.out = Append(@, c)]
             ELSE IF c = 32 THEN [st EXCEPT !.i = @ + 1, !.out = Append(@, 43)]
             ELSE [st EXCEPT !.i = @ + 1, !.out = @ \o pct]

\* quote_plus(s)
quote_plus(s) == Loop("quote", s, [i |-> 1, done |-> FALSE, out |-> <<>>]).out

\* urlencode(params) of the five parameters of the authorization URL, in the
\* order the dict lists them: name=value pairs joined by &
urlencode(params) ==
    <<114, 101, 115, 112, 111, 110, 115, 101, 95, 116, 121, 112, 101>> \o <<61>> \o quote_plus(params.response_type)
    \o <<38>> \o <<99, 108, 105, 101, 110, 116, 95, 105, 100>> \o <<61>> \o quote_plus(params.client_id)
    \o <<38>> \o <<114, 101, 100, 105, 114, 101, 99, 116, 95, 117, 114, 105>> \o <<61>> \o quote_plus(params.redirect_uri)
    \o <<38>> \o <<115, 99, 111, 112, 101>> \o <<61>> \o quote_plus(params.scope)
    \o <<38>> \o <<115, 116, 97, 116, 101>> \o <<61>> \o quote_plus(params.state)

LoopStep(kind, s, st) ==
    CASE kind = "utf8-encode" -> Utf8EncodeStep(s, st)
      [] kind = "utf8-decode" -> Utf8DecodeStep(s, st)
      [] kind = "b64encode" -> B64EncodeStep(s, st)
      [] kind = "b64decode" -> B64DecodeStep(s, st)
      [] kind = "json-escape" -> JsonEscapeStep(s, st)
      [] kind = "json-string" -> ScanStringStep(s, st)
      [] kind = "quote" -> QuoteStep(s, st)

(***************************************************************************)
(* The state codec                                                         *)
(***************************************************************************)
\* encode_state(payload): base64 of the compact, key-sorted JSON text
encode_state(payload) == urlsafe_b64encode(Utf8Encode(JsonDumps(payload)).v)

\* base64.urlsafe_b64decode(token.encode("utf-8"))
B64DecodeBytes(bytes) == IF bytes.ok THEN urlsafe_b64decode(bytes.v) ELSE CodecFail

\* raw.decode("utf-8")
DecodeRaw(raw) == IF raw.ok THEN Utf8Decode(raw.v) ELSE CodecFail

\* json.loads(...)
LoadsText(text) == IF text.ok THEN JsonLoads(text.v) ELSE ParseFail

\* a decode_state without its `except` clause: the failure leaves it as it is
ValueUnguarded(val) == val.v

\* `except Exception: return {}`
ValueOrEmpty(val) == IF val.ok THEN val.v ELSE EmptyDict

\* what the `try` body of decode_state computes; ok is FALSE when it raises
TryDecode(token) == LoadsText(DecodeRaw(B64DecodeBytes(Utf8Encode(token))))

\* a decode_state that makes nothing of any token
DecodeNothing(token) == EmptyDict

\* decode_state(token): the parsed JSON value; {} when any step raises
decode_state(token) == ValueOrEmpty(TryDecode(token))

(***************************************************************************)
(* Bounds of the model                                                     *)
(***************************************************************************)
\* callback requests that may be in flight together (SpecConc)
NumReqs == 2

\* the clock readings jobber_start may see are 0..MaxTs
MaxTs == 1

\* longest client_id of a payload given to the codec (SpecCodec)
MaxIdLen == 1

\* longest phone_number of a payload given to the codec (SpecCodec)
MaxPhoneLen == 2

Reqs == 1..NumReqs

Times == 0..MaxTs

(***************************************************************************)
(* Text literals of the program                                            *)
(***************************************************************************)
\* "client_id"
KeyClientId == <<99, 108, 105, 101, 110, 116, 95, 105, 100>>

\* "phone_number"
KeyPhoneNumber == <<112, 104, 111, 110, 101, 95, 110, 117, 109, 98, 101, 114>>

\* "ts"
KeyTs == <<116, 115>>

\* "access_token"
KeyAccessToken == <<97, 99, 99, 101, 115, 115, 95, 116, 111, 107, 101, 110>>

\* "refresh_token"
KeyRefreshToken == <<114, 101, 102, 114, 101, 115, 104, 95, 116, 111, 107, 101, 110>>

\* "expires_in"
KeyExpiresIn == <<101, 120, 112, 105, 114, 101, 115, 95, 105, 110>>

\* "success"
SuccessMarker == <<115, 117, 99, 99, 101, 115, 115>>

\* "test_client_1"
StubClientId == <<116, 101, 115, 116, 95, 99, 108, 105, 101, 110, 116, 95, 49>>

\* os.environ["JOBBER_CLIENT_ID"]: a client id, here "cid-1"
JOBBER_CLIENT_ID == <<99, 105, 100, 45, 49>>

\* os.environ["JOBBER_REDIRECT_URI"]: the address of the callback route, here
\* "https://relay.test/jobber/callback"
JOBBER_REDIRECT_URI ==
    <<104, 116, 116, 112, 115, 58, 47, 47, 114, 101, 108, 97, 121, 46, 116, 101, 115, 116, 47, 106, 111, 98, 98, 101, 114, 47, 99, 97, 108, 108, 98, 97, 99, 107>>

\* "https://api.getjobber.com/api/oauth/authorize"
JOBBER_AUTH_URL ==
    <<104, 116, 116, 112, 115, 58, 47, 47, 97, 112, 105, 46, 103, 101, 116, 106, 111, 98, 98, 101, 114, 46, 99, 111, 109, 47, 97, 112, 105, 47, 111, 97, 117, 116, 104, 47, 97, 117, 116, 104, 111, 114, 105, 122, 101>>

\* the status RedirectResponse(url=...) sends when none is given
RedirectStatus == 307

\* data.get("expires_in", 3600)
DefaultExpiresIn == 3600

PhoneRequiredUrl == "https://jobber-connect-frontend.vercel.app/phone-required.html"

PhoneNotFoundUrl == "https://jobber-connect-frontend.vercel.app/phone-not-found.html"

SuccessUrl == "https://jobber-connect-frontend.vercel.app/success.html"

(***************************************************************************)
(* HTTP responses of the handlers                                          *)
(***************************************************************************)
NoResponse == [status |-> 0, what |-> "none", text |-> <<>>]

\* raise HTTPException(status_code=status, detail=what + text)
HTTPException(status, what, text) == [status |-> status, what |-> what, text |-> text]

\* return RedirectResponse(url=url)
RedirectResponse(url) == [status |-> RedirectStatus, what |-> url, text |-> <<>>]

\* an exception no handler catches leaves the route: the server answers 500
UnhandledException == [status |-> 500, what |-> "Internal Server Error", text |-> <<>>]

(***************************************************************************)
(* Answers of the collaborators (token endpoint, sink)                     *)
(***************************************************************************)
NoAnswer == [kind |-> "none", status |-> 0, text |-> <<>>]

\* an HTTP response with its status and body text
HttpAnswer(status, text) == [kind |-> "response", status |-> status, text |-> text]

\* the call raised (connect error, timeout, ...)
TransportError == [kind |-> "error", status |-> 0, text |-> <<>>]

(***************************************************************************)
(* The stub identity lookup and the sink forwarder                         *)
(***************************************************************************)
\* get_william_client_id_by_phone: every phone number maps to the test client
get_william_client_id_by_phone(phone_number) == PyStr(StubClientId)

\* a payload that names the client of the stub lookup, whatever the state says
SinkPayloadOfStub(client_id, phone_number, access_token, refresh_token, expires_in) ==
    [client_id |-> PyStr(StubClientId), phone_number |-> phone_number,
     jobber_access_token |-> access_token, jobber_refresh_token |-> refresh_token,
     jobber_expires_in |-> expires_in, jobber_expires_at |-> expires_in]

\* the payload store_jobber_tokens_for_client posts; jobber_expires_at is
\* utcnow().timestamp() + expires_in, kept as its offset from the clock
SinkPayload(client_id, phone_number, access_token, refresh_token, expires_in) ==
    [client_id |-> client_id, phone_number |-> phone_number,
     jobber_access_token |-> access_token, jobber_refresh_token |-> refresh_token,
     jobber_expires_in |-> expires_in, jobber_expires_at |-> expires_in]

\* utcnow().timestamp() + expires_in is defined for numbers only (TypeError otherwise)
PayloadBuilds(expires_in) == expires_in.k \in {"int", "float", "bool"}

\* `if not N8N_WEBHOOK_URL: return True`
UnconfiguredVerdict == TRUE

\* the `except Exception` branch of the post: return False
TransportErrorVerdict == FALSE

\* a verdict that looks at the body only
MarkerOnlyVerdict(status, text) == Contains(Lower(Strip(text)), SuccessMarker)

\* 200 <= resp.status_code < 300 and "success" in body_text.lower()
ResponseVerdict(status, text) ==
    /\ 200 <= status /\ status < 300
    /\ Contains(Lower(Strip(text)), SuccessMarker)

\* the verdict of store_jobber_tokens_for_client once the sink has answered
SinkVerdict(ans) ==
    IF ans.kind = "error" THEN TransportErrorVerdict
    ELSE ResponseVerdict(ans.status, ans.text)

(***************************************************************************)
(* Pieces of jobber_callback                                               *)
(***************************************************************************)
\* a handler that does not look at code
CodeUnchecked(code) == TRUE

\* `if not code` is false
CodePresent(code) == Truthy(code)

\* state_payload = decode_state(state) if state else {}
StatePayload(state) == IF Truthy(state) THEN decode_state(state.v) ELSE EmptyDict

\* a handler that finds no identity in any state
IdentityRefused(phone_number, william_client_id) == TRUE

\* `if not phone_number or not william_client_id`
IdentityMissing(phone_number, william_client_id) ==
    ~Truthy(phone_number) \/ ~Truthy(william_client_id)

\* `if resp.status_code != 200`
ExchangeFailed(status) == status # 200

NoBundle ==
    [ok |-> FALSE, access_token |-> PyNone, refresh_token |-> PyNone, expires_in |-> PyNone]

\* data["access_token"]; data.get("refresh_token"); data.get("expires_in", 3600)
\* on data = resp.json().  ok is FALSE when one of these raises.
BundleFrom(data) ==
    IF ~data.ok THEN NoBundle
    ELSE IF data.v.k # "dict" THEN NoBundle
    ELSE IF KeyAccessToken \notin DOMAIN data.v.v THEN NoBundle
    ELSE [ok |-> TRUE,
          access_token |-> data.v.v[KeyAccessToken],
          refresh_token |-> DictGet(data.v, KeyRefreshToken),
          expires_in |-> IF KeyExpiresIn \in DOMAIN data.v.v
                         THEN data.v.v[KeyExpiresIn] ELSE PyInt(DefaultExpiresIn)]

BundleOf(text) == BundleFrom(JsonLoads(text))

\* a handler that sends everybody to the success page
VerdictIgnored(ok) == RedirectResponse(SuccessUrl)

\* the redirect that follows the forwarder's verdict
VerdictResponse(ok) ==
    IF ~ok THEN RedirectResponse(PhoneNotFoundUrl) ELSE RedirectResponse(SuccessUrl)

(***************************************************************************)
(* Pieces of jobber_start                                                  *)
(***************************************************************************)
\* a state payload that carries the client id in the place of the phone number
StatePayloadWithoutPhone(william_client_id, phone_number, ts) ==
    PyDict((KeyClientId :> william_client_id) @@ (KeyPhoneNumber :> william_client_id)
           @@ (KeyTs :> PyInt(ts)))

\* state_payload = {"client_id": ..., "phone_number": ..., "ts": ...}
MakeStatePayload(william_client_id, phone_number, ts) ==
    PyDict((KeyClientId :> william_client_id) @@ (KeyPhoneNumber :> phone_number)
           @@ (KeyTs :> PyInt(ts)))

NoUrl == [response_type |-> <<>>, client_id |-> <<>>, redirect_uri |-> <<>>, scope |-> <<>>,
          state |-> <<>>]

\* the query parameters of the authorization URL; the scope is
\* "clients:read clients:write"
AuthUrl(state) ==
    [response_type |-> <<99, 111, 100, 101>>, client_id |-> JOBBER_CLIENT_ID,
     redirect_uri |-> JOBBER_REDIRECT_URI,
     scope |-> <<99, 108, 105, 101, 110, 116, 115, 58, 114, 101, 97, 100, 32, 99, 108, 105, 101, 110, 116, 115, 58, 119, 114, 105, 116, 101>>,
     state |-> state]

\* no response yet; payload is the body of the request a response answers
NoStart ==
    [payload |-> PyNone, status |-> 0, what |-> "none", url |-> NoUrl, text |-> <<>>,
     lookup |-> FALSE]

\* return {"url": f"{JOBBER_AUTH_URL}?{urlencode(params)}"}
StartOk(params) ==
    [status |-> 200, what |-> "url", url |-> params,
     text |-> JOBBER_AUTH_URL \o <<63>> \o urlencode(params), lookup |-> TRUE]

\* the response of POST /jobber/start to a body, at clock reading ts;
\* lookup tells whether get_william_client_id_by_phone was called
StartResponse(body, ts) ==
    LET phone_number == DictGet(body, KeyPhoneNumber)
        william_client_id == get_william_client_id_by_phone(phone_number)
    IN  IF ~Truthy(phone_number)
        THEN [status |-> 400, what |-> "phone_number required", url |-> NoUrl,
              text |-> <<>>, lookup |-> FALSE]
        ELSE IF ~Truthy(william_client_id)
        THEN [status |-> 404, what |-> "Client not found for this phone number",
              url |-> NoUrl, text |-> <<>>, lookup |-> TRUE]
        ELSE StartOk(AuthUrl(encode_state(MakeStatePayload(william_client_id,
                                                            phone_number, ts))))

(***************************************************************************)
(* Inputs                                                                  *)
(***************************************************************************)
\* "c1", "c2"
Code1 == PyStr(<<99, 49>>)

Code2 == PyStr(<<99, 50>>)

\* "5"
Phone5 == PyStr(<<53>>)

\* bodies of POST /jobber/start: {}, {"phone_number": ""}, {"phone_number": "5"}
StartBodies ==
    {EmptyDict, PyDict(KeyPhoneNumber :> PyStr(<<>>)), PyDict(KeyPhoneNumber :> Phone5)}

\* further bodies: phone_number null, 0, 7 and "+1 \u00e9"
StartInputs ==
    StartBodies \cup {PyDict(KeyPhoneNumber :> v) :
                         v \in {PyNone, PyInt(0), PyInt(7), PyStr(<<43, 49, 32, 233>>)}}

\* the tokens /jobber/start can return within the bounds
MintableTokens ==
    {StartResponse(b, ts).url.state : b \in {PyDict(KeyPhoneNumber :> Phone5)}, ts \in Times}

\* a token built outside the service, naming client "evil" and phone "9"
ForgedToken == encode_state(MakeStatePayload(PyStr(<<101, 118, 105, 108>>), PyStr(<<57>>), 0))

\* tokens that decode to a mapping without a usable identity:
\* base64 of {"phone_number":"5"} and of {}
PartialTokens ==
    {urlsafe_b64encode(<<123, 34, 112, 104, 111, 110, 101, 95, 110, 117, 109, 98, 101, 114,
                         34, 58, 34, 53, 34, 125>>),
     <<101, 51, 48, 61>>}

\* tokens whose decoding raises: "!!" (no JSON text at all), "A" (bad padding)
UndecodableTokens == {<<33, 33>>, <<65>>}

\* "MQ==": base64 of the JSON text 1, which is no JSON object
NonObjectToken == <<77, 81, 61, 61>>

\* values of the `code` query parameter: absent, empty, present
Codes == {PyNone, PyStr(<<>>), Code1}

\* values of the `state` query parameter: absent, empty, or a token
StateParams ==
    {PyNone, PyStr(<<>>)}
    \cup {PyStr(tok) : tok \in MintableTokens \cup {ForgedToken} \cup PartialTokens
                              \cup UndecodableTokens \cup {NonObjectToken}}

\* answers of the token endpoint: a status with one of these bodies
TokenAnswers ==
    {HttpAnswer(s, x) : s \in {200, 201, 400}, x \in {
      \* {"access_token":"A1","refresh_token":"R1","expires_in":7200}
      <<123, 34, 97, 99, 99, 101, 115, 115, 95, 116, 111, 107, 101, 110, 34, 58, 34, 65, 49,
        34, 44, 34, 114, 101, 102, 114, 101, 115, 104, 95, 116, 111, 107, 101, 110, 34, 58,
        34, 82, 49, 34, 44, 34, 101, 120, 112, 105, 114, 101, 115, 95, 105, 110, 34, 58, 55,
        50, 48, 48, 125>>,
      \* {"access_token":"A1"}
      <<123, 34, 97, 99, 99, 101, 115, 115, 95, 116, 111, 107, 101, 110, 34, 58, 34, 65, 49,
        34, 125>>,
      \* {"access_token":"A1","expires_in":null}
      <<123, 34, 97, 99, 99, 101, 115, 115, 95, 116, 111, 107, 101, 110, 34, 58, 34, 65, 49,
        34, 44, 34, 101, 120, 112, 105, 114, 101, 115, 95, 105, 110, 34, 58, 110, 117, 108,
        108, 125>>,
      \* {"error":"invalid_grant"}
      <<123, 34, 101, 114, 114, 111, 114, 34, 58, 34, 105, 110, 118, 97, 108, 105, 100, 95,
        103, 114, 97, 110, 116, 34, 125>>,
      \* []
      <<91, 93>>,
      \* <html>
      <<60, 104, 116, 109, 108, 62>> }}

\* answers of the sink: a status with one of the bodies "ok success",
\* "SUCCESS", "Client number not found."
SinkAnswers ==
    {HttpAnswer(s, x) : s \in {200, 299, 300, 500}, x \in {
      <<111, 107, 32, 115, 117, 99, 99, 101, 115, 115>>,
      <<83, 85, 67, 67, 69, 83, 83>>,
      <<67, 108, 105, 101, 110, 116, 32, 110, 117, 109, 98, 101, 114, 32, 110, 111, 116, 32,
        102, 111, 117, 110, 100, 46>> }}

\* payloads of POST /jobber/disconnect/start: phoneNumber "", " " or " 5 ",
\* trigger absent, "" or "x"
DisconnectPayloads ==
    {[phoneNumber |-> p, trigger |-> g] :
        p \in {<<>>, <<32>>, <<32, 53, 32>>}, g \in {PyNone, PyStr(<<>>), PyStr(<<120>>)}}

\* answers of the token endpoint to the callbacks that run together:
\* 200 with {"access_token":"A1"}, 400 with {"error":"invalid_grant"}
ConcTokenAnswers ==
    { HttpAnswer(200, <<123, 34, 97, 99, 99, 101, 115, 115, 95, 116, 111, 107, 101, 110, 34,
                        58, 34, 65, 49, 34, 125>>),
      HttpAnswer(400, <<123, 34, 101, 114, 114, 111, 114, 34, 58, 34, 105, 110, 118, 97, 108,
                        105, 100, 95, 103, 114, 97, 110, 116, 34, 125>>) }

\* answers of the sink to them: 200 with "ok success"
ConcSinkAnswers == { HttpAnswer(200, <<111, 107, 32, 115, 117, 99, 99, 101, 115, 115>>) }

\* characters of the texts given to the codec: " \ e-acute and U+1F600
CodecAlphabet == {34, 92, 233, 128512}

\* the texts over CodecAlphabet of length at most n
Texts(n) == UNION {[1..k -> CodecAlphabet] : k \in 0..n}

\* payloads as jobber_start builds them: two strings and an integer
CodecPayloads ==
    {MakeStatePayload(PyStr(id), PyStr(phone), ts) :
        id \in Texts(MaxIdLen), phone \in Texts(MaxPhoneLen), ts \in Times \cup {1700000000}}

(***************************************************************************)
(* State                                                                   *)
(***************************************************************************)
VARIABLES
    configured,   \* N8N_WEBHOOK_URL is set (read once, at import)
    redeemed,     \* the codes the provider has redeemed (provider's state)
    minted,       \* history: the state tokens /jobber/start has returned
    lastStart,    \* the response of the latest POST /jobber/start
    callbacks,    \* per callback request: its position, locals, calls, response
    disconnects,  \* per disconnect request: its position, payload, posts, response
    codecPc,      \* SpecCodec: "input", "encoded" or "decoded"
    codecPayload, \* SpecCodec: the payload P
    codecToken,   \* SpecCodec: encode_state(P)
    codecResult   \* SpecCodec: decode_state of the token

vars == << configured, redeemed, minted, lastStart, callbacks, disconnects,
           codecPc, codecPayload, codecToken, codecResult >>

codecVars == << codecPc, codecPayload, codecToken, codecResult >>

serviceVars == << configured, redeemed, minted, lastStart, callbacks, disconnects >>

NoIdentity == [client_id |-> PyNone, phone_number |-> PyNone]

\* a callback request that has not arrived yet
IdleCallback ==
    [pc |-> "idle",
     code |-> PyNone, state |-> PyNone,   \* the query parameters
     decoded |-> FALSE,                   \* state_payload has been computed
     state_payload |-> PyNone,            \* its value
     ident |-> NoIdentity,                \* william_client_id, phone_number
     tokenSent |-> <<>>,                  \* the codes posted to the token endpoint
     tokenAns |-> NoAnswer,               \* what the token endpoint answered
     bundle |-> NoBundle,                 \* access_token, refresh_token, expires_in
     forwarding |-> FALSE,                \* store_jobber_tokens_for_client was called
     sinkSent |-> <<>>,                   \* the payloads posted to the sink
     sinkAns |-> NoAnswer,                \* what the sink answered
     verdict |-> "none",                  \* the forwarder's return: "ok" / "fail"
     resp |-> NoResponse]

Finish(c, response) == [c EXCEPT !.pc = "done", !.resp = response]

(***************************************************************************)
(* POST /jobber/start (one step: the handler never waits on anything)      *)
(***************************************************************************)
\* a start handler that hands the identity it has found to the sink at once
StartThatPosts(body, ts) ==
    /\ \E r \in {StartResponse(body, ts)} :
           /\ lastStart' = [payload |-> body, status |-> r.status, what |-> r.what,
                             url |-> r.url, text |-> r.text, lookup |-> r.lookup]
           /\ minted' = IF r.status = 200 THEN minted \cup {r.url.state} ELSE minted
           /\ callbacks' = IF r.status = 200
                            THEN [callbacks EXCEPT ![1].sinkSent =
                                      Append(@, SinkPayload(PyStr(StubClientId),
                                                            DictGet(body, KeyPhoneNumber),
                                                            PyNone, PyNone, PyInt(0)))]
                            ELSE callbacks
    /\ UNCHANGED << configured, redeemed, disconnects, codecVars >>

jobber_start(body, ts) ==
    /\ \E r \in {StartResponse(body, ts)} :
           /\ lastStart' = [payload |-> body, status |-> r.status, what |-> r.what,
                             url |-> r.url, text |-> r.text, lookup |-> r.lookup]
           /\ minted' = IF r.status = 200 THEN minted \cup {r.url.state} ELSE minted
    /\ UNCHANGED << configured, redeemed, callbacks, disconnects, codecVars >>

(***************************************************************************)
(* GET /jobber/callback and GET /callback                                  *)
(***************************************************************************)
\* the identity check on the decoded state, and the post to the token endpoint
CallbackIdentified(c, code, state_payload) ==
    LET c1 == [c EXCEPT !.decoded = TRUE, !.state_payload = state_payload]
        phone_number == DictGet(state_payload, KeyPhoneNumber)
        william_client_id == DictGet(state_payload, KeyClientId)
    IN  IF state_payload.k # "dict"
        THEN Finish(c1, UnhandledException)   \* .get on a non-mapping
        ELSE IF IdentityMissing(phone_number, william_client_id)
        THEN Finish(c1, RedirectResponse(PhoneRequiredUrl))
        ELSE [c1 EXCEPT !.pc = "exchanging",
                        !.ident = [client_id |-> william_client_id,
                                   phone_number |-> phone_number],
                        !.tokenSent = Append(@, code)]

\* a handler that keeps the tokens /jobber/start has returned and finds an
\* identity in no other state
CallbackRemembered(c, code, state) ==
    CallbackIdentified([c EXCEPT !.code = code, !.state = state], code,
                       IF state.k = "str" /\ state.v \in minted THEN StatePayload(state)
                       ELSE EmptyDict)

\* From the arrival of the request to its first await: the code check, the
\* decoding of state, the identity check and the post to the token endpoint.
CallbackArrives(c, code, state) ==
    IF ~CodePresent(code)
    THEN Finish([c EXCEPT !.code = code, !.state = state],
                HTTPException(400, "Missing code", <<>>))
    ELSE CallbackIdentified([c EXCEPT !.code = code, !.state = state], code,
                            StatePayload(state))

jobber_callback(r, code, state) ==
    /\ callbacks[r].pc = "idle"
    /\ callbacks' = [callbacks EXCEPT ![r] = CallbackArrives(@, code, state)]
    /\ UNCHANGED << configured, redeemed, minted, lastStart, disconnects, codecVars >>

\* the return of store_jobber_tokens_for_client and the redirect it selects
VerdictReturned(c, ok) ==
    Finish([c EXCEPT !.verdict = IF ok THEN "ok" ELSE "fail"], VerdictResponse(ok))

\* store_jobber_tokens_for_client(...) on the bundle of c, up to its await:
\* the payload, the configuration check and the post to the sink
store_jobber_tokens_for_client(c) ==
    IF ~PayloadBuilds(c.bundle.expires_in) THEN Finish(c, UnhandledException)
    ELSE IF ~configured THEN VerdictReturned(c, UnconfiguredVerdict)
    ELSE [c EXCEPT !.pc = "forwarding",
                   !.sinkSent = Append(@, SinkPayload(c.ident.client_id, c.ident.phone_number,
                                                      c.bundle.access_token,
                                                      c.bundle.refresh_token,
                                                      c.bundle.expires_in))]

\* the reading of the bundle b off the token endpoint's answer, and the call
\* of the forwarder
CallbackBundled(c, b) ==
    IF ~b.ok THEN Finish(c, UnhandledException)
    ELSE store_jobber_tokens_for_client([c EXCEPT !.bundle = b, !.forwarding = TRUE])

\* From the token endpoint's answer to the next await or the response: the
\* status check, the reading of the bundle, and the forwarder up to its post.
CallbackExchanged(c, ans) ==
    IF ExchangeFailed(ans.status)
    THEN Finish([c EXCEPT !.tokenAns = ans],
                HTTPException(400, "Token exchange failed: ", ans.text))
    ELSE CallbackBundled([c EXCEPT !.tokenAns = ans], BundleOf(ans.text))

\* what the provider may answer to a code: it redeems a code at most once
ProviderMayAnswer(code, ans) == code \in redeemed => ans.status # 200

TokenAnswer(r, ans) ==
    /\ callbacks[r].pc = "exchanging"
    /\ ProviderMayAnswer(callbacks[r].code, ans)
    /\ callbacks' = [callbacks EXCEPT ![r] = CallbackExchanged(@, ans)]
    /\ redeemed' = IF ans.status = 200 THEN redeemed \cup {callbacks[r].code} ELSE redeemed
    /\ UNCHANGED << configured, minted, lastStart, disconnects, codecVars >>

\* the post to the token endpoint raises: nothing in the handler catches it
TokenFail(r) ==
    /\ callbacks[r].pc = "exchanging"
    /\ callbacks' = [callbacks EXCEPT ![r] =
                        Finish([@ EXCEPT !.tokenAns = TransportError], UnhandledException)]
    /\ UNCHANGED << configured, redeemed, minted, lastStart, disconnects, codecVars >>

\* a handler that posts to the sink a second time when the first post raises
CallbackRetried(c, ans) ==
    IF ans = TransportError /\ Len(c.sinkSent) < 2
    THEN [c EXCEPT !.sinkSent = Append(@, @[1])]
    ELSE VerdictReturned([c EXCEPT !.sinkAns = ans], SinkVerdict(ans))

\* From the sink's answer (or the failure of the post) to the response.
CallbackForwarded(c, ans) == VerdictReturned([c EXCEPT !.sinkAns = ans], SinkVerdict(ans))

SinkAnswer(r, ans) ==
    /\ callbacks[r].pc = "forwarding"
    /\ callbacks' = [callbacks EXCEPT ![r] = CallbackForwarded(@, ans)]
    /\ UNCHANGED << configured, redeemed, minted, lastStart, disconnects, codecVars >>

SinkFail(r) ==
    /\ callbacks[r].pc = "forwarding"
    /\ callbacks' = [callbacks EXCEPT ![r] = CallbackForwarded(@, TransportError)]
    /\ UNCHANGED << configured, redeemed, minted, lastStart, disconnects, codecVars >>

(***************************************************************************)
(* POST /jobber/disconnect/start (jobber_disconnect.py)                    *)
(***************************************************************************)
\* a disconnect request that has not arrived yet
IdleDisconnect ==
    [pc |-> "idle",                       \* "idle", "posting", "done"
     payload |-> [phoneNumber |-> <<>>, trigger |-> PyNone],
     sent |-> <<>>,                       \* the bodies posted to the webhook
     ans |-> NoAnswer,                    \* the webhook's answer
     resp |-> NoResponse]

\* a check that lets a phone number of blanks through
PhoneEmptyOnly(phoneNumber) == phoneNumber = <<>>

\* not payload.phoneNumber or not payload.phoneNumber.strip()
PhoneBlank(phoneNumber) == phoneNumber = <<>> \/ Strip(phoneNumber) = <<>>

\* body = {"trigger": payload.trigger or "jobber_disconnect", "phone": phone}
WebhookBody(payload) ==
    [trigger |-> IF Truthy(payload.trigger) THEN payload.trigger.v
                 ELSE <<106, 111, 98, 98, 101, 114, 95, 100, 105, 115, 99, 111, 110, 110, 101, 99, 116>>,
     phone |-> Strip(payload.phoneNumber)]

\* From the arrival of the request to its await: the check of the phone
\* number, the check of the configuration, and the post to the webhook.
jobber_disconnect_start(r, payload) ==
    /\ disconnects[r].pc = "idle"
    /\ disconnects' = [disconnects EXCEPT ![r] =
          IF PhoneBlank(payload.phoneNumber)
          THEN [@ EXCEPT !.pc = "done", !.payload = payload,
                         !.resp = HTTPException(400, "Phone number is required.", <<>>)]
          ELSE IF ~configured
          THEN [@ EXCEPT !.pc = "done", !.payload = payload,
                         !.resp = HTTPException(500, "N8N_WEBHOOK_URL not configured.", <<>>)]
          ELSE [@ EXCEPT !.pc = "posting", !.payload = payload,
                         !.sent = Append(@, WebhookBody(payload))]]
    /\ UNCHANGED << configured, redeemed, minted, lastStart, callbacks, codecVars >>

\* the response once the post to the webhook has returned ans or has raised
DisconnectAnswered(ans) ==
    IF ans.kind = "error" THEN HTTPException(502, "Failed to reach n8n webhook.", <<>>)
    ELSE IF ans.status >= 300
    THEN HTTPException(502, "n8n webhook returned status ", DumpNat(ans.status))
    ELSE [status |-> 200, what |-> "success", text |-> <<>>]

\* From the end of the post to the response.
WebhookAnswer(r, ans) ==
    /\ disconnects[r].pc = "posting"
    /\ disconnects' = [disconnects EXCEPT ![r] =
                          [@ EXCEPT !.pc = "done", !.ans = ans,
                                    !.resp = DisconnectAnswered(ans)]]
    /\ UNCHANGED << configured, redeemed, minted, lastStart, callbacks, codecVars >>

(***************************************************************************)
(* Spec: one callback request, with every input and every answer of the    *)
(* collaborators, next to any number of /jobber/start requests.            *)
(***************************************************************************)
Init ==
    /\ configured \in BOOLEAN
    /\ redeemed = {}
    /\ minted = {}
    /\ lastStart = NoStart
    /\ callbacks = [r \in Reqs |-> IdleCallback]
    /\ disconnects = [r \in Reqs |-> IdleDisconnect]
    /\ codecPc = "off"
    /\ codecPayload = EmptyDict
    /\ codecToken = <<>>
    /\ codecResult = EmptyDict

Next ==
    \/ \E body \in StartBodies, ts \in Times : jobber_start(body, ts)
    \/ \E code \in Codes, state \in StateParams : jobber_callback(1, code, state)
    \/ \E ans \in TokenAnswers : TokenAnswer(1, ans)
    \/ TokenFail(1)
    \/ \E ans \in SinkAnswers : SinkAnswer(1, ans)
    \/ SinkFail(1)

Spec == Init /\ [][Next]_vars

(***************************************************************************)
(* SpecConc: NumReqs callback requests in any interleaving, each with one  *)
(* of two codes and a state that is absent or a token /jobber/start has    *)
(* returned, next to /jobber/start requests at clock reading 0.            *)
(***************************************************************************)
ConcStates == {PyNone} \cup {PyStr(tok) : tok \in minted}

NextConc ==
    \/ \E body \in StartBodies : jobber_start(body, 0)
    \/ \E r \in Reqs, code \in {Code1, Code2}, state \in ConcStates : jobber_callback(r, code, state)
    \/ \E r \in Reqs, ans \in ConcTokenAnswers : TokenAnswer(r, ans)
    \/ \E r \in Reqs : TokenFail(r)
    \/ \E r \in Reqs, ans \in ConcSinkAnswers : SinkAnswer(r, ans)
    \/ \E r \in Reqs : SinkFail(r)

SpecConc == Init /\ [][NextConc]_vars

(***************************************************************************)
(* SpecCodec: the codec on its own.  A payload is drawn, encoded, and the  *)
(* token decoded.                                                          *)
(***************************************************************************)
InitCodec ==
    /\ configured = FALSE
    /\ redeemed = {}
    /\ minted = {}
    /\ lastStart = NoStart
    /\ callbacks = [r \in Reqs |-> IdleCallback]
    /\ disconnects = [r \in Reqs |-> IdleDisconnect]
    /\ codecPc = "input"
    /\ codecPayload \in CodecPayloads
    /\ codecToken = <<>>
    /\ codecResult = EmptyDict

Encode ==
    /\ codecPc = "input"
    /\ codecToken' = encode_state(codecPayload)
    /\ codecPc' = "encoded"
    /\ UNCHANGED << serviceVars, codecPayload, codecResult >>

Decode ==
    /\ codecPc = "encoded"
    /\ codecResult' = decode_state(codecToken)
    /\ codecPc' = "decoded"
    /\ UNCHANGED << serviceVars, codecPayload, codecToken >>

NextCodec == Encode \/ Decode

SpecCodec == InitCodec /\ [][NextCodec]_vars

(***************************************************************************)
(* SpecStart: POST /jobber/start on its own, with every body of            *)
(* StartInputs.                                                            *)
(***************************************************************************)
NextStart == \E body \in StartInputs, ts \in Times : jobber_start(body, ts)

SpecStart == Init /\ [][NextStart]_vars

(***************************************************************************)
(* SpecDisc: NumReqs disconnect requests in any interleaving, with every   *)
(* payload of DisconnectPayloads and every answer of the webhook.          *)
(***************************************************************************)
NextDisc ==
    \/ \E r \in Reqs, payload \in DisconnectPayloads : jobber_disconnect_start(r, payload)
    \/ \E r \in Reqs, ans \in SinkAnswers \cup {TransportError} : WebhookAnswer(r, ans)

SpecDisc == Init /\ [][NextDisc]_vars

(***************************************************************************)
(* SpecAll: the three routes together.  /jobber/start requests for the     *)
(* phone number "5" at clock reading 0, NumReqs callback requests and a    *)
(* disconnect request in any interleaving.  A callback presents the token  *)
(* /jobber/start returns for that phone number, whether or not it has      *)
(* returned it yet; the token endpoint answers 200 with a bundle the       *)
(* forwarder can post, or the post to it fails.                            *)
(***************************************************************************)
NextAll ==
    \/ \E body \in {b \in StartBodies : Truthy(DictGet(b, KeyPhoneNumber))} :
            jobber_start(body, 0)
    \/ \E r \in Reqs, code \in {Code1, Code2},
          state \in {s \in StateParams :
                       /\ s.k = "str" /\ s.v \in MintableTokens
                       /\ DictGet(decode_state(s.v), KeyTs) = PyInt(0)} :
            jobber_callback(r, code, state)
    \/ \E r \in Reqs,
          ans \in {a \in TokenAnswers :
                     /\ a.status = 200 /\ BundleOf(a.text).ok
                     /\ PayloadBuilds(BundleOf(a.text).expires_in)} :
            TokenAnswer(r, ans)
    \/ \E r \in Reqs : TokenFail(r)
    \/ \E r \in Reqs, ans \in ConcSinkAnswers : SinkAnswer(r, ans)
    \/ \E payload \in {p \in DisconnectPayloads :
                           p.trigger = PyNone /\ ~PhoneBlank(p.phoneNumber)} :
            jobber_disconnect_start(1, payload)
    \/ \E ans \in ConcSinkAnswers \cup {TransportError} : WebhookAnswer(1, ans)

SpecAll == Init /\ [][NextAll]_vars

(***************************************************************************)
(* Properties                                                              *)
(***************************************************************************)
Arrived(c) == c.pc # "idle"

Done(c) == c.pc = "done"

\* neither the token endpoint nor the sink was called for c
NoCalls(c) ==
    /\ c.tokenSent = <<>> /\ c.tokenAns = NoAnswer
    /\ ~c.forwarding /\ c.sinkSent = <<>> /\ c.sinkAns = NoAnswer

\* the state parameter is missing, empty, or a token whose decoding raises
StateUnusable(state) == ~Truthy(state) \/ ~TryDecode(state.v).ok

\* the identity the forged token names: client "evil", phone "9"
ForgedIdentity ==
    [client_id |-> PyStr(<<101, 118, 105, 108>>), phone_number |-> PyStr(<<57>>)]

\* C1 as the spec states it: a callback with a code whose state is missing or
\* cannot be decoded ends with HTTP 400, and neither the token endpoint nor
\* the sink is called.
C1_Original ==
    \A r \in Reqs :
        LET c == callbacks[r] IN
        (Arrived(c) /\ c.code = Code1 /\ StateUnusable(c.state))
            => (Done(c) /\ c.resp.status = 400 /\ NoCalls(c))

\* C1, amended: a callback with a non-empty code whose state is missing, empty
\* or a token whose decoding raises ends, without any call to the token
\* endpoint or the sink, with a 307 redirect to the phone-required page.
C1_MissingStateRedirects ==
    \A r \in Reqs :
        LET c == callbacks[r] IN
        (Arrived(c) /\ c.code = Code1 /\ StateUnusable(c.state))
            => /\ Done(c)
               /\ c.resp = [status |-> 307, what |-> PhoneRequiredUrl, text |-> <<>>]
               /\ NoCalls(c)

\* a callback with a code and a token whose decoding raises has been answered
C1_Witness ==
    \E r \in Reqs :
        LET c == callbacks[r] IN
        /\ Done(c) /\ c.code = Code1
        /\ c.state.k = "str" /\ Len(c.state.v) > 0 /\ ~TryDecode(c.state.v).ok

\* C2 as the spec states it: a callback with a code and a forged state token
\* ends with HTTP 400 and the token endpoint is never called, so that no
\* forged identity reaches the sink.
C2_Original ==
    \A r \in Reqs :
        LET c == callbacks[r] IN
        (Arrived(c) /\ c.code = Code1 /\ c.state = PyStr(ForgedToken))
            => (Done(c) /\ c.resp.status = 400 /\ NoCalls(c))

\* C2, amended: the state token is a container without integrity check.  A
\* callback with a code and a forged, well-formed token naming a phone and a
\* client is accepted as if /jobber/start had issued the token: the code is
\* posted to the token endpoint under the forged identity, and what the sink
\* then receives is the forged identity.
C2_ForgedStateAccepted ==
    \A r \in Reqs :
        LET c == callbacks[r] IN
        (Arrived(c) /\ c.code = Code1 /\ c.state = PyStr(ForgedToken))
            => /\ ForgedToken \notin minted
               /\ c.tokenSent = <<Code1>>
               /\ c.ident = ForgedIdentity
               /\ \A i \in DOMAIN c.sinkSent :
                     /\ c.sinkSent[i].client_id = ForgedIdentity.client_id
                     /\ c.sinkSent[i].phone_number = ForgedIdentity.phone_number

\* the sink has received the identity of a forged token
C2_Witness ==
    \E r \in Reqs :
        LET c == callbacks[r] IN
        /\ c.state = PyStr(ForgedToken)
        /\ c.sinkSent # <<>>
        /\ c.sinkSent[1].client_id = ForgedIdentity.client_id

\* C3: a callback whose code is absent or empty ends with HTTP 400 "Missing
\* code", whatever its state: the state is not decoded, neither the token
\* endpoint nor the sink is called, and no redirect is issued.
C3_MissingCodeRejected ==
    \A r \in Reqs :
        LET c == callbacks[r] IN
        (Arrived(c) /\ c.code \in {PyNone, PyStr(<<>>)})
            => /\ Done(c)
               /\ c.resp = [status |-> 400, what |-> "Missing code", text |-> <<>>]
               /\ ~c.decoded /\ c.ident = NoIdentity
               /\ NoCalls(c)

\* a callback with an empty code and a well-formed state token has been answered
C3_Witness ==
    \E r \in Reqs :
        LET c == callbacks[r] IN
        /\ Done(c) /\ c.code = PyStr(<<>>)
        /\ c.state \in {PyStr(tok) : tok \in MintableTokens \cup {ForgedToken}}

\* the sink's bodies that hold "success" in some letter case:
\* "ok success", "SUCCESS"
MarkedSinkTexts ==
    { <<111, 107, 32, 115, 117, 99, 99, 101, 115, 115>>, <<83, 85, 67, 67, 69, 83, 83>> }

\* the HTTP 400 that carries the body of the token endpoint's answer
UpstreamExchangeFailed(c) ==
    c.resp = [status |-> 400, what |-> "Token exchange failed: ", text |-> c.tokenAns.text]

\* C4 as the spec states it: once the token endpoint has answered, the request
\* ends with UpstreamExchangeFailed exactly when the status is not 2xx; then
\* the forwarder is never invoked; and every 2xx answer advances the request
\* to Forwarding.
C4_Claim ==
    \A r \in Reqs :
        LET c == callbacks[r] IN
        c.tokenAns.kind = "response"
            => /\ UpstreamExchangeFailed(c) <=> c.tokenAns.status \notin 200..299
               /\ UpstreamExchangeFailed(c) => (Done(c) /\ ~c.forwarding /\ c.sinkSent = <<>>)
               /\ c.tokenAns.status \in 200..299 => c.forwarding

SinkApproves(ans) ==
    ans.kind = "response" /\ ans.status \in 200..299 /\ ans.text \in MarkedSinkTexts

\* C6 as the spec states it: the forwarder's verdict is success only if a sink
\* is configured, the sink's status is 2xx and the body holds the marker.
C6_Original ==
    \A r \in Reqs :
        LET c == callbacks[r] IN
        c.verdict = "ok" => (configured /\ SinkApproves(c.sinkAns))

\* C6, amended: the forwarder's verdict is success exactly when no sink is
\* configured (in which case nothing is posted), or the sink's status is in
\* 200..299 and the body holds "success" in some letter case; with a sink
\* configured, every other outcome (another status, a failed post, no marker)
\* is a failure verdict.
C6_VerdictPolicy ==
    \A r \in Reqs :
        LET c == callbacks[r] IN
        /\ c.verdict = "ok" <=>
              /\ c.forwarding /\ Done(c) /\ c.bundle.expires_in.k \in {"int", "float", "bool"}
              /\ (~configured /\ c.sinkSent = <<>>) \/ (configured /\ SinkApproves(c.sinkAns))
        /\ c.verdict = "fail" <=>
              /\ configured /\ c.sinkAns # NoAnswer /\ ~SinkApproves(c.sinkAns)

\* the forwarder has returned success without a sink configured
C6_Witness ==
    \E r \in Reqs :
        LET c == callbacks[r] IN
        ~configured /\ c.forwarding /\ c.verdict = "ok"

\* C7 as the spec states it, for the response: whatever the collaborators do,
\* the response of a callback is one of the HTTP 400 errors or a redirect to
\* one of the three fixed pages, never a 5xx.
C7_Claim ==
    \A r \in Reqs :
        LET c == callbacks[r] IN
        Done(c)
            => /\ c.resp.status \notin 500..599
               /\ \/ c.resp.status = 400
                  \/ c.resp.what \in {SuccessUrl, PhoneNotFoundUrl, PhoneRequiredUrl}

\* C8 as the spec states it, for callbacks that reach the Exchanging step: of
\* the callbacks that carry the same code, whose answers the provider gives
\* under its single-use rule, at most one reaches Forwarding, and every other
\* one ends with UpstreamExchangeFailed.
C8_Claim ==
    \A r1 \in Reqs, r2 \in Reqs :
        LET c1 == callbacks[r1]
            c2 == callbacks[r2]
        IN  (r1 # r2 /\ c1.tokenSent # <<>> /\ c2.tokenSent # <<>> /\ c1.code = c2.code)
                => /\ ~(c1.forwarding /\ c2.forwarding)
                   /\ (c1.forwarding /\ Done(c2)) => UpstreamExchangeFailed(c2)

\* C9 as the spec states it: of the callbacks that present the same token of
\* /jobber/start, at most one is accepted and proceeds to the token exchange.
C9_Original ==
    \A tok \in minted :
        Cardinality({r \in Reqs : callbacks[r].state = PyStr(tok)
                                    /\ callbacks[r].tokenSent # <<>>}) <= 1

\* C9, amended: a state token is never consumed.  Every callback that presents
\* a token of /jobber/start together with a non-empty code is accepted and
\* proceeds to the token exchange under the token's identity, however many
\* callbacks have presented the same token before.
C9_TokenReplayAccepted ==
    \A r \in Reqs :
        LET c == callbacks[r] IN
        (Arrived(c) /\ c.code \in {Code1, Code2} /\ c.state.k = "str" /\ c.state.v \in minted)
            => /\ c.tokenSent = <<c.code>>
               /\ c.ident = [client_id |-> PyStr(StubClientId), phone_number |-> Phone5]

\* two callbacks with different codes have presented the same token of
\* /jobber/start and both have posted their code to the token endpoint
C9_Witness ==
    \E r1 \in Reqs, r2 \in Reqs :
        LET c1 == callbacks[r1]
            c2 == callbacks[r2]
        IN  /\ c1.state.k = "str" /\ c1.state.v \in minted /\ c2.state = c1.state
            /\ c1.code = Code1 /\ c2.code = Code2
            /\ c1.tokenSent = <<Code1>> /\ c2.tokenSent = <<Code2>>

\* C10: for every payload P of two strings and an integer,
\* decode_state(encode_state(P)) is P, with no field added, dropped or altered.
C10_RoundTrip == codecPc = "decoded" => codecResult = codecPayload

\* a payload whose phone_number is a double quote and U+1F600 has gone through
\* encode_state and decode_state
C10_Witness ==
    /\ codecPc = "decoded"
    /\ codecPayload.v[KeyPhoneNumber] = PyStr(<<34, 128512>>)
    /\ codecPayload.v[KeyClientId] = PyStr(<<92>>)

\* the bytes a query-string value stands for: + is a space, %XY a byte
Unquote(s) ==
    LET Escaped(i) == (i > 1 /\ s[i - 1] = 37) \/ (i > 2 /\ s[i - 2] = 37)
        heads == SelectSeq([i \in 1..Len(s) |-> i], LAMBDA i : ~Escaped(i))
    IN  [k \in 1..Len(heads) |->
            LET i == heads[k]
            IN  IF s[i] = 43 THEN 32
                ELSE IF s[i] = 37 THEN HexVal(s[i + 1]) * 16 + HexVal(s[i + 2])
                ELSE s[i]]

\* url has a query parameter called name
HasParam(url, name) ==
    \E i \in 2..Len(url) : url[i - 1] \in {63, 38} /\ StartsWith(url, i, name \o <<61>>)

\* the value of the query parameter called name, as a browser reads it
QueryValue(url, name) ==
    LET i == CHOOSE i \in 2..Len(url) :
                 url[i - 1] \in {63, 38} /\ StartsWith(url, i, name \o <<61>>)
        start == i + Len(name) + 1
        end == CHOOSE j \in start..(Len(url) + 1) :
                   /\ j = Len(url) + 1 \/ url[j] = 38
                   /\ \A k \in start..(j - 1) : url[k] # 38
    IN  Utf8Decode(Unquote(SubSeq(url, start, end - 1))).v

\* C11: the response of POST /jobber/start to a body.  Without a phone_number,
\* or with an empty one, it is 400 and the lookup was not called; it is 404
\* exactly when the lookup was called and resolved no client; and for a
\* phone_number that is a non-empty string and a lookup that resolves a client
\* it is 200 with the authorization URL of the provider, whose query carries
\* response_type=code, the configured client id, the redirect URI, the scope
\* and a non-empty state that decodes to the resolved client id, the phone
\* number of the body and nothing else but ts.
C11_StartContract ==
    LET r == lastStart
        phone_number == DictGet(r.payload, KeyPhoneNumber)
        client == get_william_client_id_by_phone(phone_number)
        state == QueryValue(r.text, <<115, 116, 97, 116, 101>>)
        decoded == decode_state(state)
    IN  r.status # 0 =>
        /\ (phone_number \in {PyNone, PyStr(<<>>)}) => (r.status = 400 /\ ~r.lookup)
        /\ r.status = 404 <=> (r.lookup /\ ~Truthy(client))
        /\ (phone_number.k = "str" /\ phone_number.v # <<>> /\ Truthy(client)) =>
              /\ r.status = 200 /\ r.lookup
              /\ StartsWith(r.text, 1, JOBBER_AUTH_URL \o <<63>>)
              /\ QueryValue(r.text, <<114, 101, 115, 112, 111, 110, 115, 101, 95, 116, 121, 112, 101>>) = <<99, 111, 100, 101>>
              /\ QueryValue(r.text, <<99, 108, 105, 101, 110, 116, 95, 105, 100>>) = JOBBER_CLIENT_ID
              /\ QueryValue(r.text, <<114, 101, 100, 105, 114, 101, 99, 116, 95, 117, 114, 105>>) = JOBBER_REDIRECT_URI
              /\ QueryValue(r.text, <<115, 99, 111, 112, 101>>)
                    = <<99, 108, 105, 101, 110, 116, 115, 58, 114, 101, 97, 100, 32, 99, 108, 105, 101, 110, 116, 115, 58, 119, 114, 105, 116, 101>>
              /\ HasParam(r.text, <<115, 116, 97, 116, 101>>) /\ state # <<>>
              /\ decoded.k = "dict" /\ DOMAIN decoded.v = {KeyClientId, KeyPhoneNumber, KeyTs}
              /\ decoded.v[KeyClientId] = client
              /\ decoded.v[KeyPhoneNumber] = phone_number

\* /jobber/start has answered 200 to the phone number "+1 \u00e9"
C11_Witness ==
    /\ lastStart.status = 200
    /\ DictGet(lastStart.payload, KeyPhoneNumber) = PyStr(<<43, 49, 32, 233>>)

\* C12 as the spec states it: without a sink configured, a callback whose code
\* the token endpoint has exchanged (status 200 and a bundle with an access
\* token) ends with the redirect to the success page, and nothing is posted to
\* a sink.
C12_Claim ==
    \A r \in Reqs :
        LET c == callbacks[r] IN
        (~configured /\ Done(c) /\ c.tokenAns.kind = "response" /\ c.tokenAns.status = 200
           /\ c.bundle.ok)
            => /\ c.resp.status \in 300..399 /\ c.resp.what = SuccessUrl
               /\ c.sinkSent = <<>> /\ c.sinkAns = NoAnswer

\* s without its leading and trailing blanks
Trimmed(s) ==
    LET inked == {i \in 1..Len(s) : ~IsSpace(s[i])}
    IN  IF inked = {} THEN <<>>
        ELSE SubSeq(s, CHOOSE i \in inked : \A j \in inked : i <= j,
                       CHOOSE i \in inked : \A j \in inked : i >= j)

\* C13: POST /jobber/disconnect/start ends in one of four ways, decided in
\* this order: a phoneNumber that is empty or all blanks gives 400 and a
\* missing webhook URL gives 500, both without a post to the webhook; a post
\* that raises or is answered with a status of 300 or more gives 502; every
\* other answer gives 200 with success.  A request posts at most once, and the
\* body it posts carries the trimmed phone number and the trigger of the
\* payload, or "jobber_disconnect" when the payload has none (or an empty one).
C13_DisconnectOutcomes ==
    \A r \in Reqs :
        LET d == disconnects[r]
            blank == \A i \in 1..Len(d.payload.phoneNumber) : IsSpace(d.payload.phoneNumber[i])
            trigger == IF d.payload.trigger \in {PyNone, PyStr(<<>>)}
                       THEN <<106, 111, 98, 98, 101, 114, 95, 100, 105, 115, 99, 111, 110, 110, 101, 99, 116>>
                       ELSE d.payload.trigger.v
        IN  /\ Len(d.sent) <= 1
            /\ d.sent # <<>> =>
                  d.sent[1] = [trigger |-> trigger, phone |-> Trimmed(d.payload.phoneNumber)]
            /\ d.pc = "posting" => (~blank /\ configured /\ Len(d.sent) = 1)
            /\ d.pc = "done" =>
                  IF blank THEN d.resp.status = 400 /\ d.sent = <<>>
                  ELSE IF ~configured THEN d.resp.status = 500 /\ d.sent = <<>>
                  ELSE IF d.ans.kind = "error" \/ d.ans.status >= 300
                  THEN d.resp.status = 502 /\ Len(d.sent) = 1
                  ELSE d.resp.status = 200 /\ d.resp.what = "success" /\ Len(d.sent) = 1

\* two disconnect requests are done: one for " 5 " that the webhook answered
\* with 299, and one for " " that was refused
C13_Witness ==
    \E r1 \in Reqs, r2 \in Reqs :
        /\ disconnects[r1].pc = "done" /\ disconnects[r1].payload.phoneNumber = <<32, 53, 32>>
        /\ disconnects[r1].ans.status = 299 /\ disconnects[r1].resp.status = 200
        /\ disconnects[r1].sent[1].phone = <<53>>
        /\ disconnects[r2].pc = "done" /\ disconnects[r2].payload.phoneNumber = <<32>>
        /\ disconnects[r2].resp.status = 400

\* what a callback request with these inputs and these answers of its
\* collaborators has done when it is the only request: the handler from the
\* arrival to the post to the token endpoint, then, once that has answered or
\* raised, up to the post to the sink, then, once that has answered, to the end
CallbackAlone(code, state, tokenAns, sinkAns) ==
    LET arrived == CallbackArrives(IdleCallback, code, state)
        exchanged ==
            IF arrived.pc # "exchanging" \/ tokenAns = NoAnswer THEN arrived
            ELSE IF tokenAns = TransportError
            THEN Finish([arrived EXCEPT !.tokenAns = TransportError], UnhandledException)
            ELSE CallbackExchanged(arrived, tokenAns)
    IN  IF exchanged.pc # "forwarding" \/ sinkAns = NoAnswer THEN exchanged
        ELSE CallbackForwarded(exchanged, sinkAns)

\* C14: in every interleaving of start, callback and disconnect requests, each
\* request is where it would be, with the locals, the posts, the bundle and the
\* response it would have, had it run alone on its own inputs and its own
\* collaborators' answers: nothing of another request shows in it.
C14_RequestsIndependent ==
    /\ \A r \in Reqs :
          LET c == callbacks[r] IN
          Arrived(c) => c = CallbackAlone(c.code, c.state, c.tokenAns, c.sinkAns)
    /\ \A r \in Reqs :
          LET d == disconnects[r] IN
          /\ d.pc = "posting" => (d.sent = <<WebhookBody(d.payload)>> /\ d.ans = NoAnswer)
          /\ (d.pc = "done" /\ d.ans # NoAnswer) =>
                (d.sent = <<WebhookBody(d.payload)>> /\ d.resp = DisconnectAnswered(d.ans))
          /\ (d.pc = "done" /\ d.ans = NoAnswer) => (d.sent = <<>> /\ d.resp.status = 500)
    /\ lastStart.status # 0 =>
          \E ts \in Times :
              LET r == StartResponse(lastStart.payload, ts)
              IN  lastStart.status = r.status /\ lastStart.text = r.text

\* /jobber/start and a disconnect request have been answered, and two callbacks
\* with the same state have ended at the success page with different bundles
C14_Witness ==
    \E r1 \in Reqs, r2 \in Reqs :
        LET c1 == callbacks[r1]
            c2 == callbacks[r2]
        IN  /\ lastStart.status = 200 /\ disconnects[1].resp.status = 200
            /\ c1.state = c2.state
            /\ c1.resp.what = SuccessUrl /\ c2.resp.what = SuccessUrl
            /\ c1.bundle.refresh_token = PyNone /\ c2.bundle.refresh_token # PyNone
            /\ c1.sinkSent[1].jobber_refresh_token = PyNone
            /\ c2.sinkSent[1].jobber_refresh_token # PyNone

\* the state of c gives no identity: it is absent or empty, its decoding
\* raises, or what it decodes to has no non-empty phone_number and client_id
NoIdentityInState(c) ==
    \/ StateUnusable(c.state)
    \/ LET p == TryDecode(c.state.v).v
       IN  \/ p.k # "dict"
           \/ ~Truthy(DictGet(p, KeyPhoneNumber))
           \/ ~Truthy(DictGet(p, KeyClientId))

\* C15 as the spec states it: a callback with a code whose state gives no
\* identity ends with the redirect to the phone-required page, and neither the
\* token endpoint nor the sink is called.
C15_Claim ==
    \A r \in Reqs :
        LET c == callbacks[r] IN
        (Arrived(c) /\ Truthy(c.code) /\ NoIdentityInState(c))
            => /\ Done(c) /\ c.resp.status \in 300..399 /\ c.resp.what = PhoneRequiredUrl
               /\ NoCalls(c)

\* C16: a callback request posts at most once to the token endpoint and at
\* most once to the sink; it posts to the sink only after the token endpoint
\* has answered its own post with 200 and a bundle; and a post that fails, or
\* that is answered with a failure, is not repeated: the request is over, with
\* the one post it has made.
C16_CallsOrderedOnce ==
    \A r \in Reqs :
        LET c == callbacks[r] IN
        /\ Len(c.tokenSent) <= 1 /\ Len(c.sinkSent) <= 1
        /\ c.tokenSent # <<>> => c.tokenSent = <<c.code>>
        /\ c.tokenAns # NoAnswer => Len(c.tokenSent) = 1
        /\ (c.sinkSent # <<>> \/ c.sinkAns # NoAnswer \/ c.forwarding)
              => /\ Len(c.tokenSent) = 1
                 /\ c.tokenAns.kind = "response" /\ c.tokenAns.status = 200 /\ c.bundle.ok
        /\ c.sinkAns # NoAnswer => Len(c.sinkSent) = 1
        /\ (c.tokenAns = TransportError \/ (c.tokenAns.kind = "response" /\ c.tokenAns.status # 200))
              => (Done(c) /\ c.sinkSent = <<>>)
        /\ (c.sinkAns = TransportError \/ (c.sinkAns.kind = "response" /\ ~SinkApproves(c.sinkAns)))
              => Done(c)

\* a callback is over after one post to the token endpoint, answered with 200,
\* and one post to the sink, which raised
C16_Witness ==
    \E r \in Reqs :
        LET c == callbacks[r] IN
        /\ Done(c) /\ c.tokenAns.status = 200 /\ c.sinkAns = TransportError
        /\ Len(c.tokenSent) = 1 /\ Len(c.sinkSent) = 1

\* C17: whenever a callback has posted to the sink, the client_id and the
\* phone_number of the post are the ones its own state token decodes to; the
\* access token, refresh token and expires_in are the ones of the token
\* endpoint's answer to its own post (no refresh token when the answer has
\* none, 3600 when it has no expires_in); and when the token is one that
\* /jobber/start returns for a body, the phone_number is the one of that body.
C17_IdentityBinding ==
    \A r \in Reqs :
        LET c == callbacks[r]
            p == c.sinkSent[1]
            token == decode_state(c.state.v)
            data == JsonLoads(c.tokenAns.text).v
        IN  c.sinkSent # <<>> =>
            /\ p.client_id = token.v[KeyClientId]
            /\ p.phone_number = token.v[KeyPhoneNumber]
            /\ p.jobber_access_token = data.v[KeyAccessToken]
            /\ p.jobber_refresh_token
                  = (IF KeyRefreshToken \in DOMAIN data.v THEN data.v[KeyRefreshToken] ELSE PyNone)
            /\ p.jobber_expires_in
                  = (IF KeyExpiresIn \in DOMAIN data.v THEN data.v[KeyExpiresIn] ELSE PyInt(3600))
            /\ \A body \in StartBodies, ts \in Times :
                  (StartResponse(body, ts).status = 200
                     /\ StartResponse(body, ts).url.state = c.state.v)
                      => p.phone_number = body.v[KeyPhoneNumber]

\* /jobber/start has returned a token for phone "5", and a callback that
\* presented this token has posted to the sink that phone number and the
\* bundle of an answer without expires_in
C17_Witness ==
    LET c == callbacks[1] IN
    /\ lastStart.status = 200 /\ lastStart.payload = PyDict(KeyPhoneNumber :> Phone5)
    /\ c.state = PyStr(lastStart.url.state) /\ c.sinkSent # <<>>
    /\ c.sinkSent[1].phone_number = Phone5
    /\ c.sinkSent[1].jobber_expires_in = PyInt(3600)
    /\ ~Contains(c.tokenAns.text, KeyExpiresIn)

\* the request alone decides whether the handler goes on to the token
\* endpoint: a code, and a state that decodes to a mapping with a truthy
\* phone_number and a truthy client_id
RequestAcceptable(code, state) ==
    /\ Truthy(code) /\ Truthy(state)
    /\ LET d == decode_state(state.v) IN
       /\ d.k = "dict"
       /\ Truthy(DictGet(d, KeyPhoneNumber)) /\ Truthy(DictGet(d, KeyClientId))

\* a step of POST /jobber/start: the answer or the set of returned tokens changes
StartStep == lastStart' # lastStart \/ minted' # minted

\* C18: a step of POST /jobber/start, whatever its body and its answer, leaves
\* every callback request (with its posts to the token endpoint and to the
\* sink), every disconnect request, the codes the provider has redeemed and
\* the configuration as they were; and a callback that has arrived was taken
\* on to the token endpoint exactly when its own code and state are
\* acceptable, whether or not /jobber/start has ever returned its token.
C18_StartHasNoEffect ==
    /\ [][StartStep => UNCHANGED << callbacks, disconnects, redeemed, configured >>]_vars
    /\ [](\A r \in Reqs :
            LET c == callbacks[r] IN
            Arrived(c) => ((c.tokenSent # <<>>) <=> RequestAcceptable(c.code, c.state)))

\* /jobber/start has only ever answered 400, no token was returned, and a
\* callback with a well-formed token was taken on to the token endpoint
C18_Witness ==
    LET c == callbacks[1] IN
    /\ lastStart.status = 400 /\ minted = {}
    /\ c.state.k = "str" /\ c.state.v \in MintableTokens
    /\ c.tokenSent # <<>>

\* C19 as the spec states it: what decode_state returns to a callback is a
\* mapping, the empty one when the token is not the encoding of a JSON object,
\* and the handler's lookups of phone_number and client_id on it do not fail.
C19_Claim ==
    \A r \in Reqs :
        LET c == callbacks[r] IN
        (c.decoded /\ Truthy(c.state))
            => /\ c.state_payload = decode_state(c.state.v)
               /\ c.state_payload.k = "dict"
               /\ (~TryDecode(c.state.v).ok \/ TryDecode(c.state.v).v.k # "dict")
                      => c.state_payload = EmptyDict
               /\ ~(Done(c) /\ c.tokenSent = <<>> /\ c.resp = UnhandledException)

=============================================================================
